---- MODULE Spec2Model ----
(***************************************************************************)
(* Resilience layer and staged pipelines of CulinaryLens.                  *)
(*                                                                         *)
(* services/geminiService.ts keeps one module-level latch,                 *)
(* sessionForceOffline, that the critical wrapper withRetry sets on a      *)
(* quota error and resetHandshake clears.  Every exported operation is an  *)
(* async function: it runs synchronously up to its first await (the remote *)
(* attempt), is resumed when the attempt settles, and may sleep between    *)
(* attempts.  A call is therefore a small process: idle -> inflight ->     *)
(* (sleeping -> inflight)* -> done, and several calls interleave at their  *)
(* suspension points.                                                      *)
(*                                                                         *)
(* src/unnamed/part_001 is a second copy of the service module in which    *)
(* the image generators still go through withRetry; it has its own latch   *)
(* (legacyForceOffline) and is exercised by SpecLegacy.                    *)
(*                                                                         *)
(* components/Synthesis.tsx drives the service through handleStartSynthesis;*)
(* its state is the record synth and it is exercised by SpecSynthesis.     *)
(***************************************************************************)
EXTENDS Integers, Sequences, FiniteSets, TLC

\* ---------------------------------------------------------------- bounds

\* Number of background clients: calls of other components that run
\* concurrently with the call under observation (slot 0).
NumBackground == 1

\* ------------------------------------------------------ program constants

\* withRetry(fn, retries = 3, delay = 2000)
CriticalRetries == 3
CriticalDelay == 2000
\* withImageRetry(fn, retries = 2, delay = 1000)
ImageRetries == 2
ImageDelay == 1000

VARIABLES
    sessionForceOffline,   \* geminiService.ts:11
    legacyForceOffline,    \* part_001:10 (the other copy's latch)
    onLine,                \* navigator.onLine
    envKey,                \* import.meta.env.VITE_GEMINI_API_KEY ("" when unset)
    storedKey,             \* localStorage[culinary_lens_gemini_key] ("" when absent)
    calls,                 \* one record per call slot
    synth,                 \* state of the mounted Synthesis component
    ccs,                   \* one evaluation of calculateCompositeConfidence
    analyzer               \* state of the Analyzer component and of App

vars == <<sessionForceOffline, legacyForceOffline, onLine, envKey, storedKey, calls, synth,
          ccs, analyzer>>

Foreground == 0
Background == 1..NumBackground
Clients == {Foreground} \cup Background

\* ------------------------------------------------------- error messages

\* An error message is a sequence of words; String.includes is modelled as
\* "one of the words is", toLowerCase word by word.
Includes(msg, tok) == \E i \in 1..Len(msg) : msg[i] = tok

Lower(w) ==
    CASE w = "Quota" -> "quota"
      [] w = "QUOTA" -> "quota"
      [] w = "RESOURCE_EXHAUSTED" -> "resource_exhausted"
      [] w = "SESSION_OFFLINE_FAILOVER" -> "session_offline_failover"
      [] w = "Tomato" -> "tomato"
      [] OTHER -> w

toLowerCase(msg) == [i \in 1..Len(msg) |-> Lower(msg[i])]

SESSION_OFFLINE_FAILOVER == <<"SESSION_OFFLINE_FAILOVER">>

\* The messages the interleaving specifications draw from: one per class
\* (quota, transient, transient for images only, permanent).
CoreMessages ==
    { <<"429">>, <<"500", "internal">>, <<"timeout">>, <<"400", "invalid">> }

\* Representative messages a remote attempt can reject with.
Messages ==
    { <<"429">>,
      <<"Quota", "exceeded">>,
      <<"RESOURCE_EXHAUSTED">>,
      <<"500", "internal">>,
      <<"fetch", "failed">>,
      <<"timeout">>,
      <<"503", "unavailable">>,
      <<"400", "invalid">>,
      <<"429", "fetch">>,
      <<>> }

\* geminiService.ts:38 (part_001:22)
isQuotaExceeded(msg) ==
    \/ Includes(toLowerCase(msg), "quota")
    \/ Includes(msg, "429")
    \/ Includes(msg, "RESOURCE_EXHAUSTED")

\* geminiService.ts:39 (part_001:23)
isTransient(msg) ==
    isQuotaExceeded(msg) \/ Includes(msg, "500") \/ Includes(msg, "fetch")

\* geminiService.ts:65
isImageTransient(msg) ==
    Includes(msg, "500") \/ Includes(msg, "fetch") \/ Includes(msg, "timeout")

\* ------------------------------------------------------------ wrappers

\* Mutant: the latch check at the top of withRetry is missing.
withRetryShortCircuit_NoCheck(latch) == FALSE

\* withRetry line 32: TRUE when the call is refused before any attempt.
withRetryShortCircuit(latch) == latch

\* Mutant: a quota error is retried like any transient error.
withRetryCatch_RetriesQuota(msg, retries) ==
    [ setLatch |-> isQuotaExceeded(msg),
      retry    |-> isTransient(msg) /\ retries > 0 ]

\* Mutant: a quota error does not set the latch.
withRetryCatch_NoLatch(msg, retries) ==
    [ setLatch |-> FALSE,
      retry    |-> isTransient(msg) /\ retries > 0 /\ ~isQuotaExceeded(msg) ]

\* withRetry catch block (lines 36-52): what a failed attempt leads to.
withRetryCatch(msg, retries) ==
    [ setLatch |-> isQuotaExceeded(msg),
      retry    |-> isTransient(msg) /\ retries > 0 /\ ~isQuotaExceeded(msg) ]

\* Mutant: withRetry sleeps the same delay every time.
withRetryNextDelay_Constant(delay) == delay

\* withRetry line 50: the delay of the recursive call.
withRetryNextDelay(delay) == delay * 2

\* Mutant: the image wrapper latches on a quota error, as withRetry does.
withImageRetryCatch_Latches(msg, retries) ==
    [ setLatch |-> isQuotaExceeded(msg),
      retry    |-> isImageTransient(msg) /\ retries > 0 ]

\* Mutant: the image wrapper retries without looking at its budget.
withImageRetryCatch_IgnoresBudget(msg, retries) ==
    [ setLatch |-> FALSE,
      retry    |-> isImageTransient(msg) ]

\* withImageRetry catch block (lines 63-73).
withImageRetryCatch(msg, retries) ==
    [ setLatch |-> FALSE,
      retry    |-> isImageTransient(msg) /\ retries > 0 ]

\* Mutant: withImageRetry doubles its delay, as withRetry does.
withImageRetryNextDelay_Doubles(delay) == delay * 2

\* withImageRetry line 70: delay * 1.5
withImageRetryNextDelay(delay) == (delay * 3) \div 2

\* ------------------------------------------------------------ operations

CriticalOps == {"synthesizeProtocol", "auditRecall", "refineManifestWithEnsemble"}
ImageOps == {"generatePlatingVisual", "generateDrinkVisual",
             "generateIngredientVisual", "generateSchematic"}
AssetOps == ImageOps \cup {"generateVisualBlueprint"}
GatedOps == CriticalOps \cup AssetOps

\* Which wrapper an operation passes its remote attempt to.  In part_001 the
\* image generators use withRetry (part_001:267,284,300,316).
Wrapper(mod, op) ==
    IF op \in CriticalOps THEN "withRetry"
    ELSE IF op \in ImageOps THEN (IF mod = "legacy" THEN "withRetry" ELSE "withImageRetry")
    ELSE IF op = "generateVisualBlueprint" THEN "withImageRetry"
    ELSE "none"

\* Marker for "the call threw".
Throws == "<throws>"

Val(tag) == [tag |-> tag, isOffline |-> FALSE]
NoValue == Val("none")

\* offlineService.synthesizeOfflineProtocol: never fails, returns a complete
\* protocol marked isOffline.
synthesizeOfflineProtocol ==
    [tag |-> "protocol", isOffline |-> TRUE, drinkPairing |-> TRUE]

\* synthesizeProtocol lines 171-173: the parsed reply with isOffline = false.
\* An empty reply parses as {} and has no drinkPairing.
rawProtocol(payload) ==
    [tag |-> "protocol", isOffline |-> FALSE, drinkPairing |-> payload = "valid"]

\* fusion/pipeline.fuseResults: returns the protocol it is given, annotated.
fuseResults(protocol) == protocol

Payloads == {"valid", "empty", "garbage"}

\* Mutant: generateVisualBlueprint has no offline default.
OfflineResult_NullBlueprint(op) ==
    CASE op = "synthesizeProtocol" -> synthesizeOfflineProtocol
      [] op = "auditRecall" -> Val("[]")
      [] op = "refineManifestWithEnsemble" -> Val("ingredients")
      [] op = "generateVisualBlueprint" -> Val("null")
      [] OTHER -> Val("")

\* Value returned when checkOnlineStatus() is false at entry.
OfflineResult(op) ==
    CASE op = "synthesizeProtocol" -> synthesizeOfflineProtocol
      [] op = "auditRecall" -> Val("[]")
      [] op = "refineManifestWithEnsemble" -> Val("ingredients")
      [] op \in ImageOps -> Val("")
      [] op = "generateVisualBlueprint" -> Val("blueprint.offlineDefault")
      [] OTHER -> NoValue

\* Mutant: the catch block of synthesizeProtocol rethrows.
CatchResult_Rethrows(op) ==
    CASE op = "synthesizeProtocol" -> Val(Throws)
      [] op = "generateVisualBlueprint" -> Val("blueprint.fallback")
      [] op = "refineManifestWithEnsemble" -> Val("ingredients")
      [] op = "auditRecall" -> Val("[]")
      [] op = "validateApiKey" -> Val("false")
      [] OTHER -> Val("")

\* Mutant: the catch block of generateVisualBlueprint rethrows.
CatchResult_BlueprintRethrows(op) ==
    CASE op = "synthesizeProtocol" -> synthesizeOfflineProtocol
      [] op = "generateVisualBlueprint" -> Val(Throws)
      [] op = "refineManifestWithEnsemble" -> Val("ingredients")
      [] op = "auditRecall" -> Val("[]")
      [] op = "validateApiKey" -> Val("false")
      [] OTHER -> Val("")

\* Mutant: the catch block of auditRecall rethrows.
CatchResult_AuditRethrows(op) ==
    CASE op = "synthesizeProtocol" -> synthesizeOfflineProtocol
      [] op = "generateVisualBlueprint" -> Val("blueprint.fallback")
      [] op = "refineManifestWithEnsemble" -> Val("ingredients")
      [] op = "auditRecall" -> Val(Throws)
      [] op = "validateApiKey" -> Val("false")
      [] OTHER -> Val("")

\* Mutant: the catch block of refineManifestWithEnsemble returns an empty
\* list.
CatchResult_RefineReturnsEmpty(op) ==
    CASE op = "synthesizeProtocol" -> synthesizeOfflineProtocol
      [] op = "generateVisualBlueprint" -> Val("blueprint.fallback")
      [] op = "refineManifestWithEnsemble" -> Val("[]")
      [] op = "auditRecall" -> Val("[]")
      [] op = "validateApiKey" -> Val("false")
      [] OTHER -> Val("")

\* Mutant: the catch block of synthesizeProtocol returns a protocol flagged
\* as remote.
CatchResult_ForgesOnline(op) ==
    CASE op = "synthesizeProtocol" -> rawProtocol("valid")
      [] op = "generateVisualBlueprint" -> Val("blueprint.fallback")
      [] op = "refineManifestWithEnsemble" -> Val("ingredients")
      [] op = "auditRecall" -> Val("[]")
      [] op = "validateApiKey" -> Val("false")
      [] OTHER -> Val("")

\* Value returned by the operation's catch block.
CatchResult(op) ==
    CASE op = "synthesizeProtocol" -> synthesizeOfflineProtocol
      [] op = "auditRecall" -> Val("[]")
      [] op = "refineManifestWithEnsemble" -> Val("ingredients")
      [] op \in ImageOps -> Val("")
      [] op = "generateVisualBlueprint" -> Val("blueprint.fallback")
      [] op = "validateApiKey" -> Val("false")
      [] OTHER -> NoValue

\* Value computed from a fulfilled attempt; a throw inside the try block
\* (JSON.parse on unparsable text) lands in the catch block.
SuccessResult(op, payload) ==
    CASE op = "synthesizeProtocol" ->
            IF payload = "garbage" THEN CatchResult(op)
            ELSE fuseResults(rawProtocol(payload))
      [] op = "auditRecall" ->
            IF payload = "valid" THEN Val("hypotheses")
            ELSE IF payload = "empty" THEN Val("[]") ELSE CatchResult(op)
      [] op = "refineManifestWithEnsemble" ->
            IF payload = "valid" THEN Val("refined")
            ELSE IF payload = "empty" THEN Val("[]") ELSE CatchResult(op)
      [] op \in ImageOps ->
            IF payload = "empty" THEN Val("") ELSE Val("data:image")
      [] op = "generateVisualBlueprint" ->
            IF payload = "valid" THEN Val("blueprint.remote")
            ELSE IF payload = "empty" THEN Val("null") ELSE CatchResult(op)
      [] op = "validateApiKey" ->
            IF payload = "valid" THEN Val("true") ELSE Val("false")
      [] OTHER -> NoValue

\* ---------------------------------------------------------- health monitor

\* geminiService.ts:80-91
resolveGeminiApiKey ==
    IF envKey # "" THEN envKey
    ELSE IF storedKey # "" THEN storedKey
    ELSE Throws

\* Mutant: checkOnlineStatus without the latch test of line 107.
checkOnlineStatusOf_IgnoresLatch(latch) ==
    IF resolveGeminiApiKey = Throws THEN FALSE
    ELSE onLine /\ (resolveGeminiApiKey # "")

\* geminiService.ts:106-114, for the module whose latch is given.
checkOnlineStatusOf(latch) ==
    IF latch THEN FALSE
    ELSE IF resolveGeminiApiKey = Throws THEN FALSE
    ELSE onLine /\ (resolveGeminiApiKey # "")

checkOnlineStatus == checkOnlineStatusOf(sessionForceOffline)

Latch(mod) == IF mod = "legacy" THEN legacyForceOffline ELSE sessionForceOffline

\* -------------------------------------------------------------- call slots

IdleCall ==
    [ mod |-> "current", op |-> "none", pc |-> "idle", retries |-> 0, delay |-> 0,
      attempts |-> 0, sleeps |-> <<>>, thrown |-> FALSE, err |-> <<>>,
      tripped |-> FALSE, cleared |-> FALSE, result |-> NoValue ]

FreshCall(mod, op) ==
    [ IdleCall EXCEPT !.mod = mod, !.op = op,
        !.retries = IF Wrapper(mod, op) = "withRetry" THEN CriticalRetries
                    ELSE IF Wrapper(mod, op) = "withImageRetry" THEN ImageRetries ELSE 0,
        !.delay = IF Wrapper(mod, op) = "withRetry" THEN CriticalDelay
                  ELSE IF Wrapper(mod, op) = "withImageRetry" THEN ImageDelay ELSE 0 ]

\* The wrapper threw msg; the operation's catch block turns it into a value.
Caught(rec, msg) ==
    [ rec EXCEPT !.pc = "done", !.thrown = TRUE, !.err = msg,
                 !.result = CatchResult(rec.op) ]

Returned(rec, value) == [ rec EXCEPT !.pc = "done", !.result = value ]

\* Mutant: withImageRetry refuses under a set latch, as withRetry does.
EnterWrapper_AlwaysChecksLatch(rec, latch) ==
    IF latch
    THEN Caught(rec, SESSION_OFFLINE_FAILOVER)
    ELSE [ rec EXCEPT !.pc = "inflight", !.attempts = @ + 1 ]

\* Entry of withRetry / withImageRetry (first call or the recursive one): the
\* latch check of withRetry, then fn() is invoked and awaited.  latch is the
\* value of the module's latch at that moment.
EnterWrapper(rec, latch) ==
    IF Wrapper(rec.mod, rec.op) = "withRetry" /\ withRetryShortCircuit(latch)
    THEN Caught(rec, SESSION_OFFLINE_FAILOVER)
    ELSE [ rec EXCEPT !.pc = "inflight", !.attempts = @ + 1 ]

\* What the wrapper's catch block decides for a rejected attempt.
CatchDecision(rec, msg) ==
    IF Wrapper(rec.mod, rec.op) = "withRetry" THEN withRetryCatch(msg, rec.retries)
    ELSE IF Wrapper(rec.mod, rec.op) = "withImageRetry" THEN withImageRetryCatch(msg, rec.retries)
    ELSE [ setLatch |-> FALSE, retry |-> FALSE ]

NextDelay(rec) ==
    IF Wrapper(rec.mod, rec.op) = "withRetry" THEN withRetryNextDelay(rec.delay)
    ELSE withImageRetryNextDelay(rec.delay)

\* The call record after a rejected attempt.
AfterReject(rec, msg) ==
    LET d == CatchDecision(rec, msg) IN
    IF d.retry
    THEN [ rec EXCEPT !.pc = "sleeping", !.sleeps = Append(@, rec.delay),
                      !.tripped = @ \/ d.setLatch ]
    ELSE [ Caught(rec, msg) EXCEPT !.tripped = @ \/ d.setLatch ]

\* The record slot c holds after a step: the observed call keeps its outcome,
\* a background call that has settled is forgotten.
Store(c, rec) == IF c \in Background /\ rec.pc = "done" THEN IdleCall ELSE rec

SetLatch(mod, value) ==
    IF mod = "legacy"
    THEN legacyForceOffline' = value /\ UNCHANGED sessionForceOffline
    ELSE sessionForceOffline' = value /\ UNCHANGED legacyForceOffline

KeepLatches == UNCHANGED <<sessionForceOffline, legacyForceOffline>>
KeepEnv == UNCHANGED <<onLine, envKey, storedKey>>
KeepSynth == UNCHANGED synth

\* No evaluation of the confidence score is under way.
NoScore == [ phase |-> "none" ]

\* The views other than the one taking the step are left alone.
KeepPerception == UNCHANGED <<ccs, analyzer>>

\* ----------------------------------------------------------------- actions

\* resolveGeminiApiKey line 90: the message of the error it throws.
API_KEY_NOT_CONFIGURED ==
    <<"Gemini API key not configured", "Please add your API key in Settings">>

\* Mutant: the operation does not consult checkOnlineStatus().
Invoke_Ungated(latch, mod, op) ==
    IF resolveGeminiApiKey = Throws
    THEN Caught(FreshCall(mod, op), API_KEY_NOT_CONFIGURED)
    ELSE EnterWrapper(FreshCall(mod, op), latch)

\* An exported operation guarded by checkOnlineStatus() runs up to its first
\* await: gate, getAi(), wrapper entry, first attempt in flight.  latch is
\* the value of the module's latch at that moment.
Invoke(latch, mod, op) ==
    IF ~checkOnlineStatusOf(latch)
    THEN Returned(FreshCall(mod, op), OfflineResult(op))
    ELSE IF resolveGeminiApiKey = Throws
    THEN Caught(FreshCall(mod, op), API_KEY_NOT_CONFIGURED)
    ELSE EnterWrapper(FreshCall(mod, op), latch)

\* A client calls an exported operation.
StartOp(c, mod, op) ==
    /\ calls[c].pc \in {"idle", "done"}
    /\ op \in GatedOps
    /\ calls' = [calls EXCEPT ![c] = Store(c, Invoke(Latch(mod), mod, op))]
    /\ KeepLatches /\ KeepEnv /\ KeepSynth /\ KeepPerception

\* The remote attempt of call c is fulfilled with a payload.
AttemptFulfilled(c, payload) ==
    /\ calls[c].pc = "inflight"
    /\ calls[c].op \in GatedOps
    /\ calls' = [calls EXCEPT ![c] =
          Store(c, Returned(calls[c], SuccessResult(calls[c].op, payload)))]
    /\ KeepLatches /\ KeepEnv /\ KeepSynth /\ KeepPerception

\* The remote attempt of call c is rejected with an error message.
AttemptRejected(c, msg) ==
    /\ calls[c].pc = "inflight"
    /\ calls[c].op \in GatedOps
    /\ calls' = [calls EXCEPT ![c] = Store(c, AfterReject(calls[c], msg))]
    /\ IF CatchDecision(calls[c], msg).setLatch
       THEN SetLatch(calls[c].mod, TRUE)
       ELSE KeepLatches
    /\ KeepEnv /\ KeepSynth /\ KeepPerception

\* The recursive wrapper call made when the backoff sleep of rec is over.
Recurse(rec, latch) ==
    EnterWrapper([rec EXCEPT !.retries = rec.retries - 1, !.delay = NextDelay(rec)],
                 latch)

\* The backoff timer of call c fires.
WakeUp(c) ==
    /\ calls[c].pc = "sleeping"
    /\ calls' = [calls EXCEPT ![c] = Store(c, Recurse(calls[c], Latch(calls[c].mod)))]
    /\ KeepLatches /\ KeepEnv /\ KeepSynth /\ KeepPerception

\* Mutant: resetHandshake toggles the latch instead of clearing it.
resetHandshake_Toggles(mod) == SetLatch(mod, ~Latch(mod))

\* geminiService.ts:119-122 (part_001:82-84)
resetHandshake(mod) == SetLatch(mod, FALSE)

\* A client calls the exported resetHandshake().
ResetHandshake(mod) ==
    /\ resetHandshake(mod)
    /\ UNCHANGED calls
    /\ KeepEnv /\ KeepSynth /\ KeepPerception

\* Mutant: validateApiKey gives up under a set latch.
validateApiKeyRefuses_WhenLatched(apiKeyToTest) ==
    apiKeyToTest = "" \/ ~onLine \/ sessionForceOffline

\* validateApiKey line 135: TRUE when the call returns false before any request.
validateApiKeyRefuses(apiKeyToTest) == apiKeyToTest = "" \/ ~onLine

\* validateApiKey line 143-144: TRUE when the reply makes it reset the latch.
validateApiKeyIsValid(ok, payload) == ok /\ payload = "valid"

\* validateApiKey(key?) up to its await (lines 127-141).  key = "" stands for
\* the call without argument.
StartValidate(c, mod, key) ==
    /\ calls[c].pc \in {"idle", "done"}
    /\ LET apiKeyToTest == IF key # "" THEN key
                           ELSE IF resolveGeminiApiKey = Throws THEN "" ELSE resolveGeminiApiKey
           rec == FreshCall(mod, "validateApiKey")
       IN calls' = [calls EXCEPT ![c] = Store(c,
             IF validateApiKeyRefuses(apiKeyToTest)
             THEN Returned(rec, Val("false"))
             ELSE [rec EXCEPT !.pc = "inflight", !.attempts = 1])]
    /\ KeepLatches /\ KeepEnv /\ KeepSynth /\ KeepPerception

\* Settings.handleSaveApiKey (part_002:49-61): store the key, then validate it.
SaveApiKey(c) ==
    /\ calls[c].pc \in {"idle", "done"}
    /\ storedKey' = "K"
    /\ LET rec == FreshCall("current", "validateApiKey")
       IN calls' = [calls EXCEPT ![c] = Store(c,
             IF validateApiKeyRefuses("K")
             THEN Returned(rec, Val("false"))
             ELSE [rec EXCEPT !.pc = "inflight", !.attempts = 1])]
    /\ KeepLatches /\ UNCHANGED <<onLine, envKey>> /\ KeepSynth /\ KeepPerception

\* validateApiKey after its await (lines 142-148): the request was fulfilled
\* (ok) with a payload, or rejected.
ValidateSettles(c, ok, payload) ==
    /\ calls[c].pc = "inflight"
    /\ calls[c].op = "validateApiKey"
    /\ calls' = [calls EXCEPT ![c] = Store(c,
          [ Returned(calls[c], IF validateApiKeyIsValid(ok, payload)
                               THEN Val("true") ELSE Val("false"))
            EXCEPT !.cleared = validateApiKeyIsValid(ok, payload) /\ Latch(calls[c].mod) ])]
    /\ IF validateApiKeyIsValid(ok, payload)
       THEN resetHandshake(calls[c].mod)
       ELSE KeepLatches
    /\ KeepEnv /\ KeepSynth /\ KeepPerception

\* Browser online/offline transition.
NetworkChange ==
    /\ onLine' = ~onLine
    /\ UNCHANGED <<sessionForceOffline, legacyForceOffline, envKey, storedKey, calls, synth>>
    /\ KeepPerception

\* The stored key disappears (site data cleared).
ClearStorage ==
    /\ storedKey # ""
    /\ storedKey' = ""
    /\ UNCHANGED <<sessionForceOffline, legacyForceOffline, onLine, envKey, calls, synth>>
    /\ KeepPerception

\* ------------------------------------------------------ Synthesis component

\* Synthesis.tsx:27-33
StepIds == {"manifest", "plating", "sommelier", "blueprint", "procurement"}
SYNTHESIS_STEPS == [id \in StepIds |-> "pending"]

\* Synthesis.tsx:51-53
updateStep(steps, id, status) == [steps EXCEPT ![id] = status]

\* Positions at which handleStartSynthesis is suspended.
AwaitStages == {"awaitProtocol", "awaitPlating", "awaitBlueprint",
                "awaitBlueprintCatch", "awaitDrink", "awaitSchematic"}

\* The component as mounted (Synthesis.tsx:36-49).  currentProtocol is the
\* state of App that onProtocolReady sets (part_000:15,40-42); pc is the
\* position of the running handler; progressLog lists the setProgress calls
\* of the current run and activated the stages that updateStep has marked
\* active in it (both are histories of the run, not state of the component).
MountedSynthesis(inventory) ==
    [ phase |-> "CALIBRATION", localInventory |-> inventory,
      selectedCuisine |-> FALSE, protocol |-> Val("null"),
      visualUrl |-> "null", drinkUrl |-> "null", schematicUrl |-> "null",
      visualBlueprint |-> "null", progress |-> 0, progressLog |-> <<>>,
      steps |-> SYNTHESIS_STEPS, activated |-> {}, errorMessage |-> "",
      isOnline |-> checkOnlineStatus, pc |-> "idle",
      currentProtocol |-> Val("null") ]

\* Mutant: the bar shows the share that is left.
setProgress_Remaining(s, n) ==
    [s EXCEPT !.progress = 100 - n, !.progressLog = Append(@, 100 - n)]

setProgress(s, n) == [s EXCEPT !.progress = n, !.progressLog = Append(@, n)]

\* Synthesis.tsx:131-139: the outer catch block.
OuterCatch(s, rec) ==
    [ synth |-> [s EXCEPT !.errorMessage =
                              IF Includes(rec.err, "Gemini API key not configured")
                              THEN "API_KEY_NOT_CONFIGURED" ELSE "AI_SYNTHESIS_FAILED",
                          !.phase = "CALIBRATION", !.pc = "idle"],
      call |-> rec ]

\* Synthesis.tsx:125-130: the run completes and arms the 800 ms timer.
Complete(s, rec) ==
    [ synth |-> [ setProgress(
                    [s EXCEPT !.steps = updateStep(updateStep(@, "blueprint", "complete"),
                                                   "procurement", "complete")], 100)
                  EXCEPT !.currentProtocol = s.protocol, !.pc = "timer" ],
      call |-> rec ]

RECURSIVE Resume(_, _, _)
RECURSIVE Proceed(_, _, _, _)

\* The handler calls op and awaits it at stage; an operation that returns
\* without suspending lets the handler run on in the same task.
Proceed(s, op, stage, latch) ==
    LET rec == Invoke(latch, "current", op)
        s1 == [s EXCEPT !.pc = stage]
    IN IF rec.pc = "done" THEN Resume(s1, rec, latch)
       ELSE [synth |-> s1, call |-> rec]

\* handleStartSynthesis resumes at s.pc with the settled call rec and runs to
\* its next suspension (Synthesis.tsx:80-130).
Resume(s, rec, latch) ==
    LET threw == rec.result.tag = Throws
        \* lines 125-130
        afterSchematic(s1) == Complete(s1, rec)
        \* lines 114-120
        afterDrink(s1) ==
            Proceed(setProgress(
                      [s1 EXCEPT !.steps = updateStep(updateStep(@, "sommelier", "complete"),
                                                      "blueprint", "active"),
                          !.activated = @ \cup {"blueprint"}], 80),
                    "generateSchematic", "awaitSchematic", latch)
        \* lines 103-113; reading drinkPairing.name of a protocol without
        \* drinkPairing throws inside the try block
        afterPlating(s1) ==
            LET s2 == setProgress(
                        [s1 EXCEPT !.steps = updateStep(updateStep(@, "plating", "complete"),
                                                        "sommelier", "active"),
                          !.activated = @ \cup {"sommelier"}], 60)
            IN IF s2.protocol.drinkPairing
               THEN Proceed(s2, "generateDrinkVisual", "awaitDrink", latch)
               ELSE afterDrink(s2)
    IN CASE s.pc = "awaitProtocol" ->
              IF threw THEN OuterCatch(s, rec)
              ELSE Proceed(setProgress(
                             [s EXCEPT !.protocol = rec.result,
                                       !.steps = updateStep(updateStep(@, "manifest", "complete"),
                                                            "plating", "active"),
                          !.activated = @ \cup {"plating"}], 40),
                           "generatePlatingVisual", "awaitPlating", latch)
         [] s.pc = "awaitPlating" ->
              IF threw
              THEN Proceed(s, "generateVisualBlueprint", "awaitBlueprintCatch", latch)
              ELSE IF rec.result.tag # ""
              THEN afterPlating([s EXCEPT !.visualUrl = rec.result.tag])
              ELSE Proceed(s, "generateVisualBlueprint", "awaitBlueprint", latch)
         [] s.pc = "awaitBlueprint" ->
              IF threw
              THEN Proceed(s, "generateVisualBlueprint", "awaitBlueprintCatch", latch)
              ELSE afterPlating([s EXCEPT !.visualBlueprint = rec.result.tag])
         [] s.pc = "awaitBlueprintCatch" ->
              IF threw THEN OuterCatch(s, rec)
              ELSE afterPlating([s EXCEPT !.visualBlueprint = rec.result.tag])
         [] s.pc = "awaitDrink" ->
              IF threw THEN afterDrink(s)
              ELSE afterDrink([s EXCEPT !.drinkUrl = rec.result.tag])
         [] s.pc = "awaitSchematic" ->
              IF threw THEN afterSchematic(s)
              ELSE afterSchematic([s EXCEPT !.schematicUrl = rec.result.tag])
         [] OTHER -> [synth |-> s, call |-> rec]

\* A state update re-renders the component: isOnline is read again (line 49).
Rendered(s, latch) == [s EXCEPT !.isOnline = checkOnlineStatusOf(latch)]

\* The handler's effect on the component and on its call slot.
SynthesisStep(out, latch) ==
    /\ synth' = Rendered(out.synth, latch)
    /\ calls' = [calls EXCEPT ![Foreground] = out.call]

\* A cuisine tile is clicked (Synthesis.tsx:166).
SelectCuisine ==
    /\ synth.phase = "CALIBRATION"
    /\ synth' = Rendered([synth EXCEPT !.selectedCuisine = TRUE], sessionForceOffline)
    /\ UNCHANGED calls
    /\ KeepLatches /\ KeepEnv /\ KeepPerception

\* Mutant: the handler does not look at the inventory.
handleStartSynthesis_NoInventoryCheck ==
    /\ synth.phase = "CALIBRATION"
    /\ synth.pc = "idle"
    /\ synth.selectedCuisine
    /\ synth.isOnline
    /\ SynthesisStep(
         Proceed([synth EXCEPT !.phase = "PROCESSING",
                               !.steps = updateStep(SYNTHESIS_STEPS, "manifest", "active"),
                               !.activated = {"manifest"},
                               !.progress = 20, !.progressLog = <<5, 20>>,
                               !.errorMessage = ""],
                 "synthesizeProtocol", "awaitProtocol", sessionForceOffline),
         sessionForceOffline)
    /\ KeepLatches /\ KeepEnv /\ KeepPerception

\* The Synthesize button (line 192, enabled with a cuisine and isOnline as
\* rendered) is clicked: handleStartSynthesis up to its first suspension.
handleStartSynthesis ==
    /\ synth.phase = "CALIBRATION"
    /\ synth.pc = "idle"
    /\ synth.selectedCuisine
    /\ synth.isOnline
    /\ IF synth.localInventory = "empty"
       THEN /\ synth' = Rendered([synth EXCEPT !.errorMessage = "ANALYZE_IMAGE_FIRST"],
                                 sessionForceOffline)
            /\ UNCHANGED calls
       ELSE SynthesisStep(
              Proceed([synth EXCEPT !.phase = "PROCESSING",
                                    !.steps = updateStep(SYNTHESIS_STEPS, "manifest", "active"),
                                    !.activated = {"manifest"},
                                    !.progress = 20, !.progressLog = <<5, 20>>,
                                    !.errorMessage = ""],
                      "synthesizeProtocol", "awaitProtocol", sessionForceOffline),
              sessionForceOffline)
    /\ KeepLatches /\ KeepEnv /\ KeepPerception

\* The remote attempt the handler awaits is fulfilled.
SynthesisFulfilled(payload) ==
    /\ synth.pc \in AwaitStages
    /\ calls[Foreground].pc = "inflight"
    /\ SynthesisStep(
         Resume(synth, Returned(calls[Foreground],
                                SuccessResult(calls[Foreground].op, payload)),
                sessionForceOffline),
         sessionForceOffline)
    /\ KeepLatches /\ KeepEnv /\ KeepPerception

\* The remote attempt the handler awaits is rejected: the wrapper sleeps, or
\* throws and the handler runs on.
SynthesisRejected(msg) ==
    /\ synth.pc \in AwaitStages
    /\ calls[Foreground].pc = "inflight"
    /\ LET rec == AfterReject(calls[Foreground], msg)
           latch == sessionForceOffline \/ CatchDecision(calls[Foreground], msg).setLatch
       IN /\ IF rec.pc = "sleeping"
             THEN /\ calls' = [calls EXCEPT ![Foreground] = rec]
                  /\ UNCHANGED synth
             ELSE SynthesisStep(Resume(synth, rec, latch), latch)
          /\ sessionForceOffline' = latch
    /\ UNCHANGED legacyForceOffline
    /\ KeepEnv /\ KeepPerception

\* The backoff sleep of the awaited call is over.
SynthesisWakeUp ==
    /\ synth.pc \in AwaitStages
    /\ calls[Foreground].pc = "sleeping"
    /\ LET rec == Recurse(calls[Foreground], sessionForceOffline)
       IN IF rec.pc = "done"
          THEN SynthesisStep(Resume(synth, rec, sessionForceOffline), sessionForceOffline)
          ELSE /\ calls' = [calls EXCEPT ![Foreground] = rec]
               /\ UNCHANGED synth
    /\ KeepLatches /\ KeepEnv /\ KeepPerception

\* The timer of line 130 fires.
ResultsTimer ==
    /\ synth.pc = "timer"
    /\ synth' = Rendered([synth EXCEPT !.phase = "RESULTS", !.pc = "idle"],
                         sessionForceOffline)
    /\ UNCHANGED calls
    /\ KeepLatches /\ KeepEnv /\ KeepPerception

\* The Re-Align button of the RESULTS view (line 336).
ReAlign ==
    /\ synth.phase = "RESULTS"
    /\ synth' = Rendered([synth EXCEPT !.phase = "CALIBRATION"], sessionForceOffline)
    /\ UNCHANGED calls
    /\ KeepLatches /\ KeepEnv /\ KeepPerception

\* ------------------------------------------------------ Analyzer component
\* src/unnamed/part_002:446-527 (components/Analyzer) and the part of App
\* that mounts it (src/unnamed/part_000:12-71).

AnalyzerStepIds == {"detect", "segment", "audit", "rescan", "fuse", "vision"}

\* part_002:459-466
INITIAL_STEPS == [id \in AnalyzerStepIds |-> "pending"]

\* The order in which the handler takes the stages.
AnalyzerStageOrder == <<"detect", "segment", "audit", "rescan", "fuse", "vision">>

\* Positions at which the onload handler is suspended on a service call.
AnalyzerCallStages == {"awaitAudit", "awaitFuse"}

\* The Analyzer as mounted by App in the UPLOAD view (part_002:468-474);
\* viewState and inventory are the state of App (part_000:13-14), pc is the
\* position of the running handler, activated the history of the stages
\* that updateStep has marked active in the current run.
MountedAnalyzer ==
    [ viewState |-> "UPLOAD", inventory |-> "empty",
      isAnalyzing |-> FALSE, error |-> "null", progress |-> 0,
      steps |-> INITIAL_STEPS, activated |-> {}, pc |-> "idle",
      hypotheses |-> "none", ensembleIngredients |-> "none" ]

\* part_002:521-524: the catch block of the onload handler.
AnalyzerCatch(a, rec) ==
    [ analyzer |-> [a EXCEPT !.isAnalyzing = FALSE,
                             !.error = "Critical analysis failure", !.pc = "idle"],
      call |-> rec ]

\* Mutant: the rescan stage is marked active before the audit call is made.
AuditStageEntered_EagerRescan(a) ==
    [a EXCEPT !.steps = updateStep(updateStep(@, "audit", "active"), "rescan", "active"),
              !.activated = @ \cup {"audit", "rescan"},
              !.progress = 55]

\* part_002:497-499
AuditStageEntered(a) ==
    [a EXCEPT !.steps = updateStep(@, "audit", "active"),
              !.activated = @ \cup {"audit"}, !.progress = 55]

RECURSIVE AnalyzerResume(_, _, _)

\* The handler calls op and awaits it at stage; an operation that returns
\* without suspending lets the handler run on in the same task.
AnalyzerProceed(a, op, stage, latch) ==
    LET rec == Invoke(latch, "current", op)
        a1 == [a EXCEPT !.pc = stage]
    IN IF rec.pc = "done" THEN AnalyzerResume(a1, rec, latch)
       ELSE [analyzer |-> a1, call |-> rec]

\* The onload handler resumes at a.pc with the settled service call rec and
\* runs to its next suspension (part_002:500-516).
AnalyzerResume(a, rec, latch) ==
    LET threw == rec.result.tag = Throws
    IN CASE a.pc = "awaitAudit" ->
              IF threw THEN AnalyzerCatch(a, rec)
              ELSE [ analyzer |->
                       [a EXCEPT !.hypotheses = rec.result.tag,
                                 !.steps = updateStep(updateStep(@, "audit", "complete"),
                                                      "rescan", "active"),
                                 !.activated = @ \cup {"rescan"},
                                 !.progress = 75,
                                 !.pc = "awaitRescan"],
                     call |-> rec ]
         [] a.pc = "awaitFuse" ->
              IF threw THEN AnalyzerCatch(a, rec)
              ELSE [ analyzer |->
                       [a EXCEPT !.ensembleIngredients = rec.result.tag,
                                 !.steps = updateStep(updateStep(@, "fuse", "complete"),
                                                      "vision", "active"),
                                 !.activated = @ \cup {"vision"},
                                 !.progress = 95,
                                 !.pc = "awaitVision"],
                     call |-> rec ]
         [] OTHER -> [analyzer |-> a, call |-> rec]

\* The handler's effect on the component and on its call slot.
AnalyzerStep(out) ==
    /\ analyzer' = out.analyzer
    /\ calls' = [calls EXCEPT ![Foreground] = out.call]

KeepOtherViews == UNCHANGED <<synth, ccs>>

\* A file was chosen and read: reader.onload up to the first await
\* (part_002:484-493).  The upload control is rendered while isAnalyzing is
\* false (part_002:539).
readerOnload ==
    /\ analyzer.viewState = "UPLOAD"
    /\ ~analyzer.isAnalyzing
    /\ analyzer.pc = "idle"
    /\ analyzer' = [analyzer EXCEPT !.isAnalyzing = TRUE, !.error = "null",
                       !.steps = updateStep(INITIAL_STEPS, "detect", "active"),
                       !.activated = {"detect"},
                       !.progress = 15, !.pc = "awaitPerception"]
    /\ UNCHANGED calls
    /\ KeepLatches /\ KeepEnv /\ KeepOtherViews

\* perception/pipeline.run_perception_pipeline settles (part_002:493-497).
PerceptionSettles(ok) ==
    /\ analyzer.pc = "awaitPerception"
    /\ IF ok
       THEN analyzer' = [analyzer EXCEPT
                            !.steps = updateStep(updateStep(@, "detect", "complete"),
                                                 "segment", "complete"),
                            !.pc = "pause"]
       ELSE analyzer' = AnalyzerCatch(analyzer, calls[Foreground]).analyzer
    /\ UNCHANGED calls
    /\ KeepLatches /\ KeepEnv /\ KeepOtherViews

\* The 600 ms pause is over: the audit stage up to its suspension
\* (part_002:497-502).
AuditTimer ==
    /\ analyzer.pc = "pause"
    /\ AnalyzerStep(AnalyzerProceed(AuditStageEntered(analyzer), "auditRecall", "awaitAudit",
                                    sessionForceOffline))
    /\ KeepLatches /\ KeepEnv /\ KeepOtherViews

\* The remote attempt the handler awaits is fulfilled.
AnalyzerFulfilled(payload) ==
    /\ analyzer.pc \in AnalyzerCallStages
    /\ calls[Foreground].pc = "inflight"
    /\ AnalyzerStep(
         AnalyzerResume(analyzer, Returned(calls[Foreground],
                                           SuccessResult(calls[Foreground].op, payload)),
                        sessionForceOffline))
    /\ KeepLatches /\ KeepEnv /\ KeepOtherViews

\* The remote attempt the handler awaits is rejected: the wrapper sleeps, or
\* throws and the handler runs on.
AnalyzerRejected(msg) ==
    /\ analyzer.pc \in AnalyzerCallStages
    /\ calls[Foreground].pc = "inflight"
    /\ LET rec == AfterReject(calls[Foreground], msg)
           latch == sessionForceOffline \/ CatchDecision(calls[Foreground], msg).setLatch
       IN /\ IF rec.pc = "sleeping"
             THEN /\ calls' = [calls EXCEPT ![Foreground] = rec]
                  /\ UNCHANGED analyzer
             ELSE AnalyzerStep(AnalyzerResume(analyzer, rec, latch))
          /\ sessionForceOffline' = latch
    /\ UNCHANGED legacyForceOffline
    /\ KeepEnv /\ KeepOtherViews

\* The backoff sleep of the awaited call is over.
AnalyzerWakeUp ==
    /\ analyzer.pc \in AnalyzerCallStages
    /\ calls[Foreground].pc = "sleeping"
    /\ LET rec == Recurse(calls[Foreground], sessionForceOffline)
       IN IF rec.pc = "done"
          THEN AnalyzerStep(AnalyzerResume(analyzer, rec, sessionForceOffline))
          ELSE /\ calls' = [calls EXCEPT ![Foreground] = rec]
               /\ UNCHANGED analyzer
    /\ KeepLatches /\ KeepEnv /\ KeepOtherViews

\* perception/pipeline.run_targeted_rescan resolves: the fuse stage up to its
\* suspension (part_002:505-511).
RescanSettles ==
    /\ analyzer.pc = "awaitRescan"
    /\ AnalyzerStep(
         AnalyzerProceed([analyzer EXCEPT
                             !.steps = updateStep(updateStep(@, "rescan", "complete"),
                                                  "fuse", "active"),
                             !.activated = @ \cup {"fuse"},
                             !.progress = 85],
                         "refineManifestWithEnsemble", "awaitFuse", sessionForceOffline))
    /\ KeepLatches /\ KeepEnv /\ KeepOtherViews

\* analyzeFoodImage resolves (it catches its own failures, part_000:207-282):
\* part_002:516-520.
VisionSettles ==
    /\ analyzer.pc = "awaitVision"
    /\ analyzer' = [analyzer EXCEPT !.steps = updateStep(@, "vision", "complete"),
                                    !.progress = 100, !.pc = "timer"]
    /\ UNCHANGED calls
    /\ KeepLatches /\ KeepEnv /\ KeepOtherViews

\* The timer of part_002:520 fires: onComplete(ensembleIngredients), that is
\* App.handleAnalysisComplete (part_000:33-36).  An empty refined list leaves
\* the inventory as it was.
AnalysisComplete ==
    /\ analyzer.pc = "timer"
    /\ analyzer' = [analyzer EXCEPT
                       !.viewState = "DASHBOARD", !.pc = "unmounted",
                       !.inventory = IF analyzer.ensembleIngredients = "[]"
                                     THEN @ ELSE "items"]
    /\ UNCHANGED calls
    /\ KeepLatches /\ KeepEnv /\ KeepOtherViews

\* Dashboard.onSynthesize (part_000:38, 62-69): App mounts the Synthesis view
\* with the inventory.
handleSynthesize ==
    /\ analyzer.viewState = "DASHBOARD"
    /\ analyzer' = [analyzer EXCEPT !.viewState = "SYNTHESIS"]
    /\ synth' = MountedSynthesis(analyzer.inventory)
    /\ UNCHANGED <<calls, ccs>>
    /\ KeepLatches /\ KeepEnv

\* ------------------------------------------------- composite confidence
\* src/unnamed/part_000:109-150 (calculateCompositeConfidence).

\* Largest inventory and largest ingredients_used list that are enumerated.
MaxInventory == 2
MaxUsed == 2

\* A JavaScript number is modelled as an exact fraction n/d in lowest terms
\* (d > 0), or as NaN (d = 0).
RECURSIVE GCD(_, _)
GCD(a, b) == IF b = 0 THEN a ELSE GCD(b, a % b)

NaN == [n |-> 0, d |-> 0]
isNaN(x) == x.d = 0

Num(n, d) ==
    LET g == GCD(IF n < 0 THEN -n ELSE n, d)
    IN  [n |-> n \div g, d |-> d \div g]

Add(x, y) ==
    IF isNaN(x) \/ isNaN(y) THEN NaN ELSE Num(x.n * y.d + y.n * x.d, x.d * y.d)

Sub(x, y) ==
    IF isNaN(x) \/ isNaN(y) THEN NaN ELSE Num(x.n * y.d - y.n * x.d, x.d * y.d)

Mul(x, y) ==
    IF isNaN(x) \/ isNaN(y) THEN NaN ELSE Num(x.n * y.n, x.d * y.d)

\* total / length for a total accumulated over a list of that length: the
\* total is 0 when the list is empty, and 0 / 0 is NaN.
DivByLength(total, length) ==
    IF isNaN(total) \/ length = 0 THEN NaN ELSE Num(total.n, total.d * length)

Less(x, y) == x.n * y.d < y.n * x.d

\* Math.min / Math.max: NaN if either argument is NaN.
MathMin(x, y) == IF isNaN(x) \/ isNaN(y) THEN NaN ELSE IF Less(y, x) THEN y ELSE x
MathMax(x, y) == IF isNaN(x) \/ isNaN(y) THEN NaN ELSE IF Less(x, y) THEN y ELSE x

\* Math.round: the nearest integer, halves upwards; NaN stays NaN.
MathRound(x) == IF isNaN(x) THEN NaN ELSE Num((2 * x.n + x.d) \div (2 * x.d), 1)

\* Mutant: x ?? y, which keeps 0 and NaN.
OrElse_Nullish(x, y) == x

\* x || y: y when x is falsy (0 or NaN).
OrElse(x, y) == IF isNaN(x) \/ x.n = 0 THEN y ELSE x

Names == {"tomato", "Tomato", "unicorn-meat"}
Confidences == {Num(0, 1), Num(6, 10), Num(1, 1)}
Statuses == {"unverified", "confirmed"}
IngredientValues ==
    [name : Names, confidence : Confidences, verificationStatus : Statuses]

RECURSIVE ListsUpTo(_, _)
ListsUpTo(S, k) ==
    IF k = 0 THEN {<<>>}
    ELSE LET shorter == ListsUpTo(S, k - 1)
         IN  shorter \cup {Append(l, x) : l \in shorter, x \in S}

\* prefs.confidenceMemory: confirmation counts by key.
MemoryKeys == {"tomato", "Tomato"}
Counts == {0, 2, 6}
Memories == [MemoryKeys -> Counts]

\* (memory[key] || 0)
memoryCount(memory, key) == IF key \in DOMAIN memory THEN memory[key] ELSE 0

\* lines 135-136: Math.min(count * 0.02, 0.10)
memoryBias(memory, curr) ==
    MathMin(Mul(Num(memoryCount(memory, Lower(curr.name)), 1), Num(2, 100)), Num(10, 100))

\* lines 128-137, one iteration of the reducer without the accumulator.
itemScore(memory, curr) ==
    LET score == IF curr.verificationStatus = "confirmed"
                 THEN MathMax(curr.confidence, Num(85, 100))
                 ELSE curr.confidence
    IN  MathMin(Add(score, memoryBias(memory, curr)), Num(1, 1))

RECURSIVE reduceScores(_, _)
reduceScores(memory, list) ==
    IF list = <<>> THEN Num(0, 1)
    ELSE Add(reduceScores(memory, SubSeq(list, 1, Len(list) - 1)),
             itemScore(memory, list[Len(list)]))

\* lines 126-137: reduce(...) / mlInventory.length || 1
mlConfidence(mlInventory, memory) ==
    OrElse(DivByLength(reduceScores(memory, mlInventory), Len(mlInventory)), Num(1, 1))

\* Mutant: every protocol is given the lower coherence.
geminiCoherence_Flat(protocol) == Num(7, 10)

\* line 140
geminiCoherence(protocol) ==
    IF protocol.instructions > 3 THEN Num(1, 1) ELSE Num(7, 10)

\* line 143
mlNames(mlInventory) == {Lower(mlInventory[i].name) : i \in 1..Len(mlInventory)}

\* Mutant: names are compared as written.
hallucinations_CaseSensitive(mlInventory, protocol) ==
    Cardinality({i \in 1..Len(protocol.ingredients_used) :
        protocol.ingredients_used[i] \notin
            {mlInventory[j].name : j \in 1..Len(mlInventory)}})

\* line 144
hallucinations(mlInventory, protocol) ==
    Cardinality({i \in 1..Len(protocol.ingredients_used) :
        Lower(protocol.ingredients_used[i]) \notin mlNames(mlInventory)})

\* line 145
constraintSatisfaction(mlInventory, protocol) ==
    MathMax(Num(0, 1),
            Sub(Num(1, 1),
                DivByLength(Num(hallucinations(mlInventory, protocol), 1),
                            Len(protocol.ingredients_used))))

\* lines 147-149, from the three terms.
composite(ml, gemini, constraint) ==
    MathRound(Mul(Add(Add(Mul(Num(5, 10), ml), Mul(Num(3, 10), gemini)),
                      Mul(Num(2, 10), constraint)),
                  Num(100, 1)))

\* The function's local constants and its return value.
calculateCompositeConfidence(mlInventory, protocol, memory) ==
    LET ml == mlConfidence(mlInventory, memory)
        gemini == geminiCoherence(protocol)
        constraint == constraintSatisfaction(mlInventory, protocol)
    IN  [ mlConfidence |-> ml, geminiCoherence |-> gemini,
          constraintSatisfaction |-> constraint,
          result |-> composite(ml, gemini, constraint) ]

\* A protocol as far as the function reads it: the number of instructions
\* and the names in ingredients_used.
Protocols ==
    [instructions : {3, 4, 5}, ingredients_used : ListsUpTo(Names, MaxUsed)]

\* The function is called with an inventory, a protocol and the stored memory.
Calculate ==
    /\ ccs.phase = "called"
    /\ ccs' = [ccs EXCEPT !.phase = "returned",
                 !.out = calculateCompositeConfidence(ccs.mlInventory, ccs.protocol,
                                                      ccs.memory)]
    /\ UNCHANGED <<sessionForceOffline, legacyForceOffline, onLine, envKey, storedKey,
                   calls, synth, analyzer>>

\* ------------------------------------------------------------ specification

\* Operations a background client runs: the recall audit of the Analyzer
\* (a critical call) and, through its own actions, key validation.
BackgroundOps == {"auditRecall"}

\* The service module as loaded, in any browser environment.
ServiceInit ==
    /\ sessionForceOffline = FALSE
    /\ legacyForceOffline = FALSE
    /\ onLine \in BOOLEAN
    /\ envKey \in {"", "K"}
    /\ storedKey \in {"", "K"}
    /\ calls = [c \in Clients |-> IdleCall]

Init ==
    /\ ServiceInit
    /\ synth = MountedSynthesis("items")
    /\ ccs = NoScore
    /\ analyzer = MountedAnalyzer

\* Steps of the environment: network, storage.
EnvNext ==
    \/ NetworkChange
    \/ ClearStorage

\* services/geminiService.ts used by an observed client and background clients.
Next ==
    \/ \E op \in GatedOps : StartOp(Foreground, "current", op)
    \/ \E c \in Background, op \in BackgroundOps : StartOp(c, "current", op)
    \/ \E c \in Clients, p \in Payloads : AttemptFulfilled(c, p)
    \/ \E c \in Clients, m \in CoreMessages : AttemptRejected(c, m)
    \/ \E c \in Clients : WakeUp(c)
    \/ \E c \in Clients, k \in {"", "K"} : StartValidate(c, "current", k)
    \/ \E c \in Clients : SaveApiKey(c)
    \/ \E c \in Clients, ok \in BOOLEAN, p \in Payloads : ValidateSettles(c, ok, p)
    \/ ResetHandshake("current")
    \/ EnvNext

Spec == Init /\ [][Next]_vars

\* The copy of the service module in src/unnamed/part_001, whose image
\* generators go through withRetry.
NextLegacy ==
    \/ \E op \in ImageOps : StartOp(Foreground, "legacy", op)
    \/ \E p \in Payloads : AttemptFulfilled(Foreground, p)
    \/ \E m \in CoreMessages : AttemptRejected(Foreground, m)
    \/ WakeUp(Foreground)
    \/ \E c \in Background, k \in {"", "K"} : StartValidate(c, "legacy", k)
    \/ \E c \in Background, ok \in BOOLEAN, p \in Payloads : ValidateSettles(c, ok, p)
    \/ EnvNext

SpecLegacy == Init /\ [][NextLegacy]_vars

\* One client alone, its remote attempts rejected with any of the messages:
\* the wrappers' classification and backoff.
NextWrappers ==
    \/ \E op \in GatedOps : StartOp(Foreground, "current", op)
    \/ \E p \in Payloads : AttemptFulfilled(Foreground, p)
    \/ \E m \in Messages : AttemptRejected(Foreground, m)
    \/ WakeUp(Foreground)
    \/ ResetHandshake("current")
    \/ EnvNext

SpecWrappers == Init /\ [][NextWrappers]_vars

\* The pending attempt of the observed call settles one way or the other.
AttemptSettles ==
    \/ \E p \in Payloads : AttemptFulfilled(Foreground, p)
    \/ \E m \in Messages : AttemptRejected(Foreground, m)

\* Every remote attempt settles and every backoff sleep ends.
FairSpecWrappers ==
    /\ SpecWrappers
    /\ WF_vars(AttemptSettles)
    /\ WF_vars(WakeUp(Foreground))

\* The Synthesis view mounted with an empty or a non-empty inventory.
InitSynthesis ==
    /\ ServiceInit
    /\ \E inventory \in {"empty", "items"} : synth = MountedSynthesis(inventory)
    /\ ccs = NoScore
    /\ analyzer = MountedAnalyzer

\* The awaited attempt settles one way or the other.
SynthesisSettles ==
    \/ \E p \in Payloads : SynthesisFulfilled(p)
    \/ \E m \in CoreMessages : SynthesisRejected(m)

\* The Synthesis view in use; the Settings view may reset the latch meanwhile.
NextSynthesis ==
    \/ SelectCuisine
    \/ handleStartSynthesis
    \/ \E p \in Payloads : SynthesisFulfilled(p)
    \/ \E m \in CoreMessages : SynthesisRejected(m)
    \/ SynthesisWakeUp
    \/ ResultsTimer
    \/ ReAlign
    \/ ResetHandshake("current")
    \/ EnvNext

SpecSynthesis == InitSynthesis /\ [][NextSynthesis]_vars

\* Requests settle, backoff sleeps end and the results timer fires.
FairSpecSynthesis ==
    /\ SpecSynthesis
    /\ WF_vars(SynthesisSettles)
    /\ WF_vars(SynthesisWakeUp)
    /\ WF_vars(ResultsTimer)

\* calculateCompositeConfidence called once, with any inventory, protocol and
\* confirmation memory of the enumerated sizes.
InitConfidence ==
    /\ sessionForceOffline = FALSE
    /\ legacyForceOffline = FALSE
    /\ onLine = TRUE
    /\ envKey = ""
    /\ storedKey = ""
    /\ calls = [c \in Clients |-> IdleCall]
    /\ synth = MountedSynthesis("items")
    /\ analyzer = MountedAnalyzer
    /\ \E inv \in ListsUpTo(IngredientValues, MaxInventory), p \in Protocols, m \in Memories :
          ccs = [ phase |-> "called", mlInventory |-> inv, protocol |-> p, memory |-> m,
                  out |-> [ mlConfidence |-> NaN, geminiCoherence |-> NaN,
                            constraintSatisfaction |-> NaN, result |-> NaN ] ]

NextConfidence == Calculate

SpecConfidence == InitConfidence /\ [][NextConfidence]_vars

\* The Analyzer view in use, from the upload to the hand-over to App.
NextAnalyzer ==
    \/ readerOnload
    \/ \E ok \in BOOLEAN : PerceptionSettles(ok)
    \/ AuditTimer
    \/ \E p \in Payloads : AnalyzerFulfilled(p)
    \/ \E m \in Messages : AnalyzerRejected(m)
    \/ AnalyzerWakeUp
    \/ RescanSettles
    \/ VisionSettles
    \/ AnalysisComplete
    \/ ResetHandshake("current")
    \/ EnvNext

SpecAnalyzer == Init /\ [][NextAnalyzer]_vars

\* The Synthesis view is the one on screen.
SynthesisShown == analyzer.viewState = "SYNTHESIS"

\* The perception pipeline, then the synthesis pipeline on its inventory.
NextPipelines ==
    \/ readerOnload
    \/ \E ok \in BOOLEAN : PerceptionSettles(ok)
    \/ AuditTimer
    \/ \E p \in Payloads : AnalyzerFulfilled(p)
    \/ \E m \in CoreMessages : AnalyzerRejected(m)
    \/ AnalyzerWakeUp
    \/ RescanSettles
    \/ VisionSettles
    \/ AnalysisComplete
    \/ handleSynthesize
    \/ SynthesisShown /\ SelectCuisine
    \/ SynthesisShown /\ handleStartSynthesis
    \/ \E p \in Payloads : SynthesisShown /\ SynthesisFulfilled(p)
    \/ \E m \in CoreMessages : SynthesisShown /\ SynthesisRejected(m)
    \/ SynthesisShown /\ SynthesisWakeUp
    \/ SynthesisShown /\ ResultsTimer
    \/ SynthesisShown /\ ReAlign
    \/ ResetHandshake("current")
    \/ EnvNext

SpecPipelines == Init /\ [][NextPipelines]_vars

\* ==================================================================== claims

\* A usable credential exists (environment or storage).
CredentialPresent == envKey # "" \/ storedKey # ""

\* The observed call.
fg == calls[Foreground]

\* Call c takes a step in which withRetry (of the current module) is entered:
\* the recursive call after a backoff sleep.
WakesInWithRetry(c) ==
    /\ calls[c].pc = "sleeping"
    /\ Wrapper(calls[c].mod, calls[c].op) = "withRetry"
    /\ calls'[c] # calls[c]

\* A step in which resetHandshake() runs: called directly, or by validateApiKey
\* on a valid reply.
ResetStep ==
    \/ ResetHandshake("current")
    \/ \E c \in Clients : ValidateSettles(c, TRUE, "valid")

\* A step in which a withRetry attempt of call c is rejected with a quota error.
QuotaRejection(c) ==
    \E m \in CoreMessages :
        /\ isQuotaExceeded(m)
        /\ Wrapper(calls[c].mod, calls[c].op) = "withRetry"
        /\ AttemptRejected(c, m)

\* C1: while the latch is set, every entry into withRetry fails with
\* SESSION_OFFLINE_FAILOVER and starts no remote attempt; a critical
\* operation called while the latch is set starts no attempt either.
C1_LatchedCriticalCallShortCircuits ==
    [][ /\ \A c \in Clients :
              (sessionForceOffline /\ WakesInWithRetry(c)) => calls'[c].pc # "inflight"
        /\ (sessionForceOffline /\ WakesInWithRetry(Foreground)) =>
              /\ fg'.pc = "done"
              /\ fg'.thrown
              /\ fg'.err = SESSION_OFFLINE_FAILOVER
              /\ fg'.attempts = fg.attempts
        /\ \A op \in CriticalOps :
              (sessionForceOffline /\ StartOp(Foreground, "current", op)) =>
                  (fg'.pc = "done" /\ fg'.attempts = 0)
      ]_vars

\* A critical call that slept in its backoff resumed under a set latch and was
\* refused.
C1_Witness ==
    /\ fg.pc = "done"
    /\ fg.op \in CriticalOps
    /\ fg.err = SESSION_OFFLINE_FAILOVER
    /\ fg.attempts >= 1
    /\ ~fg.tripped
    /\ sessionForceOffline

\* C2: a withRetry attempt rejected with a quota error sets the latch, is not
\* retried (no further attempt, no sleep) whatever budget remains, and the
\* error itself is what withRetry throws.
C2_QuotaTripsLatchWithoutRetry ==
    [][ \A m \in CoreMessages :
          ( /\ isQuotaExceeded(m)
            /\ Wrapper(fg.mod, fg.op) = "withRetry"
            /\ AttemptRejected(Foreground, m) ) =>
          ( /\ sessionForceOffline'
            /\ fg'.pc = "done"
            /\ fg'.thrown
            /\ fg'.err = m
            /\ fg'.attempts = fg.attempts
            /\ fg'.sleeps = fg.sleeps )
      ]_vars

\* A quota error arrived on the second attempt, with retries left.
C2_Witness ==
    /\ fg.pc = "done"
    /\ fg.op \in CriticalOps
    /\ fg.thrown
    /\ isQuotaExceeded(fg.err)
    /\ fg.tripped
    /\ fg.attempts = 2
    /\ fg.retries = CriticalRetries - 1
    /\ Len(fg.sleeps) = 1
    /\ sessionForceOffline

\* C3: no step of an image generator or of generateVisualBlueprint changes a
\* failover latch.
C3_AssetCallsNeverTouchLatch ==
    [][ (fg' # fg /\ (fg.op \in AssetOps \/ fg'.op \in AssetOps)) =>
            UNCHANGED <<sessionForceOffline, legacyForceOffline>> ]_vars

\* C4: a quota error in the remote call of auditRecall or of
\* refineManifestWithEnsemble leaves the latch and checkOnlineStatus() unchanged.
C4_OnlyManifestAlignmentTrips ==
    [][ \A m \in CoreMessages :
          ( /\ isQuotaExceeded(m)
            /\ fg.op \in {"auditRecall", "refineManifestWithEnsemble"}
            /\ AttemptRejected(Foreground, m) ) =>
          ( /\ sessionForceOffline' = sessionForceOffline
            /\ checkOnlineStatus' = checkOnlineStatus )
      ]_vars

\* C5: checkOnlineStatus() is a boolean equal to
\* (networkUp AND credentialPresent) AND NOT latch.
C5_HealthSignalFormula ==
    /\ checkOnlineStatus \in BOOLEAN
    /\ checkOnlineStatus = ((onLine /\ CredentialPresent) /\ ~sessionForceOffline)
    /\ sessionForceOffline => ~checkOnlineStatus
    /\ resolveGeminiApiKey = Throws => ~checkOnlineStatus
    /\ (~sessionForceOffline /\ resolveGeminiApiKey # Throws) => checkOnlineStatus = onLine

\* The latch alone makes the service unreachable.
C5_Witness ==
    /\ sessionForceOffline
    /\ onLine
    /\ CredentialPresent
    /\ ~checkOnlineStatus

\* C6: resetHandshake leaves the latch clear whatever it was, touches nothing
\* else, and afterwards checkOnlineStatus() is networkUp AND credentialPresent;
\* run on a state it produced it changes nothing.
C6_ResetIdempotent ==
    [][ ResetHandshake("current") =>
          ( /\ ~sessionForceOffline'
            /\ checkOnlineStatus' = (onLine' /\ CredentialPresent')
            /\ UNCHANGED <<legacyForceOffline, onLine, envKey, storedKey, calls, synth>>
            /\ (~sessionForceOffline => UNCHANGED vars) )
      ]_vars

\* The observed call tripped the latch, the latch has been reset since, and
\* the service is reachable again.
C6_Witness ==
    /\ fg.pc = "done"
    /\ fg.tripped
    /\ ~sessionForceOffline
    /\ checkOnlineStatus

\* C7: the latch is set only by a quota rejection inside withRetry and is
\* cleared only by resetHandshake.
C7_LatchWriters ==
    [][ /\ (~sessionForceOffline /\ sessionForceOffline') => \E c \in Clients : QuotaRejection(c)
        /\ (sessionForceOffline /\ ~sessionForceOffline') => ResetStep
      ]_vars

\* A successful validation cleared a set latch.
C7_Witness ==
    /\ fg.pc = "done"
    /\ fg.op = "validateApiKey"
    /\ fg.cleared
    /\ fg.result = Val("true")

\* C8: synthesizeProtocol always returns a protocol; when the service is
\* unreachable or latched at entry, when withRetry throws, or when the reply
\* cannot be parsed, it is the offline generator's, with isOffline = TRUE.
C8_SynthesizeAlwaysReturnsProtocol ==
    /\ []( (fg.pc = "done" /\ fg.op = "synthesizeProtocol") =>
              /\ fg.result.tag = "protocol"
              /\ (fg.thrown \/ fg.attempts = 0) => fg.result = synthesizeOfflineProtocol
              /\ fg.result = synthesizeOfflineProtocol => fg.result.isOffline )
    /\ [][ /\ (~checkOnlineStatus /\ StartOp(Foreground, "current", "synthesizeProtocol")) =>
                (fg'.pc = "done" /\ fg'.result.tag = "protocol" /\ fg'.result.isOffline)
           /\ (fg.op = "synthesizeProtocol" /\ AttemptFulfilled(Foreground, "garbage")) =>
                (fg'.pc = "done" /\ fg'.result.tag = "protocol" /\ fg'.result.isOffline)
         ]_vars

\* The remote synthesis failed on every attempt of its budget and the offline
\* protocol was returned.
C8_Witness ==
    /\ fg.pc = "done"
    /\ fg.op = "synthesizeProtocol"
    /\ fg.thrown
    /\ fg.attempts = CriticalRetries + 1
    /\ fg.result.tag = "protocol"
    /\ fg.result.isOffline

\* C9: a quota error in the remote call of synthesizeProtocol yields a protocol
\* with isOffline = TRUE, and from then on checkOnlineStatus() is FALSE in
\* every state until resetHandshake runs.
C9_QuotaInManifestAlignment ==
    [][ /\ \A m \in CoreMessages :
              ( /\ isQuotaExceeded(m)
                /\ fg.op = "synthesizeProtocol"
                /\ AttemptRejected(Foreground, m) ) =>
              ( /\ fg'.pc = "done"
                /\ fg'.result.tag = "protocol"
                /\ fg'.result.isOffline
                /\ sessionForceOffline'
                /\ ~checkOnlineStatus' )
        /\ (sessionForceOffline /\ ~ResetStep) => (sessionForceOffline' /\ ~checkOnlineStatus')
      ]_vars

\* After the quota trip of synthesizeProtocol the network is up and a key is
\* present, yet the service reports unreachable.
C9_Witness ==
    /\ fg.pc = "done"
    /\ fg.op = "synthesizeProtocol"
    /\ fg.tripped
    /\ fg.result.isOffline
    /\ sessionForceOffline
    /\ onLine
    /\ CredentialPresent
    /\ ~checkOnlineStatus

\* The run is complete: every stage complete, progress 100, onProtocolReady
\* called with the protocol of the run, phase RESULTS.
SynthesisCompleted ==
    /\ synth.phase = "RESULTS"
    /\ synth.progress = 100
    /\ \A id \in StepIds : synth.steps[id] = "complete"
    /\ synth.currentProtocol = synth.protocol
    /\ synth.protocol.tag = "protocol"

\* C10: a synthesis run never goes back to CALIBRATION or to an error message
\* whatever its asset calls return or throw; the step that ends the asset
\* stages leaves every stage complete, progress 100 and the protocol handed
\* to onProtocolReady; and once the protocol is there the run reaches RESULTS.
C10_AssetFailuresNeverAbortTheRun ==
    /\ [][ synth.phase = "PROCESSING" =>
             (synth'.phase \in {"PROCESSING", "RESULTS"} /\ synth'.errorMessage = "") ]_vars
    /\ [][ (synth.pc # "timer" /\ synth'.pc = "timer") =>
             ( /\ synth'.progress = 100
               /\ \A id \in StepIds : synth'.steps[id] = "complete"
               /\ synth'.currentProtocol = synth'.protocol
               /\ synth'.protocol.tag = "protocol" ) ]_vars
    /\ (synth.phase = "PROCESSING" /\ synth.pc # "awaitProtocol") ~> SynthesisCompleted

\* A run completed although the plating image came back empty, the blueprint
\* request failed, and the schematic request failed on every attempt.
C10_Witness ==
    /\ SynthesisCompleted
    /\ ~synth.protocol.isOffline
    /\ synth.visualBlueprint = "blueprint.fallback"
    /\ fg.op = "generateSchematic"
    /\ fg.thrown
    /\ fg.attempts = ImageRetries + 1
    /\ synth.schematicUrl = ""

\* A descriptive blueprint: one of the three values generateVisualBlueprint
\* builds or parses, as opposed to null.
DescriptiveBlueprints ==
    {"blueprint.remote", "blueprint.fallback", "blueprint.offlineDefault"}

\* C11: when the plating image call has failed or returned no image, the step
\* that completes the plating stage leaves a non-null blueprint in
\* visualBlueprint and leaves the protocol and checkOnlineStatus() unchanged.
C11_PlatingFailureYieldsBlueprint ==
    [][ ( /\ synth.pc \in {"awaitBlueprint", "awaitBlueprintCatch"}
          /\ synth'.steps["plating"] = "complete" ) =>
        ( /\ synth'.visualBlueprint \in DescriptiveBlueprints
          /\ synth'.protocol = synth.protocol
          /\ checkOnlineStatus' = checkOnlineStatus )
      ]_vars

\* C12: whenever the component shows RESULTS, exactly one of visualUrl and
\* visualBlueprint is set.
C12_ExactlyOneVisual ==
    synth.phase = "RESULTS" =>
        ((synth.visualUrl # "null") # (synth.visualBlueprint # "null"))

\* A step of an image generator or of generateVisualBlueprint run by the
\* observed client: the call starts, or its pending call moves on.
AssetStep ==
    /\ fg' # fg
    /\ \/ fg.pc \in {"inflight", "sleeping"} /\ fg.op \in AssetOps
       \/ fg.pc \in {"idle", "done"} /\ fg'.op \in AssetOps

C14_ImageWrapperIgnoresLatch ==
    /\ []( \A c \in Clients :
             (calls[c].pc = "sleeping" /\ Wrapper(calls[c].mod, calls[c].op) = "withImageRetry")
                => Recurse(calls[c], TRUE) = Recurse(calls[c], FALSE) )
    /\ [][ /\ ( /\ sessionForceOffline
                /\ Wrapper(fg.mod, fg.op) = "withImageRetry"
                /\ WakeUp(Foreground) ) =>
              (fg'.pc = "inflight" /\ fg'.attempts = fg.attempts + 1)
           /\ \A p \in Payloads :
                ( /\ sessionForceOffline
                  /\ Wrapper(fg.mod, fg.op) = "withImageRetry"
                  /\ AttemptFulfilled(Foreground, p) ) =>
                    ( /\ fg'.pc = "done"
                      /\ ~fg'.thrown
                      /\ fg'.result = SuccessResult(fg.op, p) )
         ]_vars

\* The retry of an asset call is in flight while the latch is set.
C14_Witness ==
    /\ fg.pc = "inflight"
    /\ fg.op \in ImageOps
    /\ fg.attempts = 2
    /\ sessionForceOffline

\* The sleeps of a withRetry call so far: 2000 first, then doubling.
CriticalBackoff(sleeps) ==
    \A i \in 1..Len(sleeps) :
        sleeps[i] = (IF i = 1 THEN CriticalDelay ELSE 2 * sleeps[i - 1])

\* C15: a withRetry call whose attempts keep failing with a transient error
\* makes exactly 4 attempts, sleeps 2000, 4000 and 8000 ms between them, then
\* throws the last error with the latch unchanged; an attempt that is
\* fulfilled ends the call with no further attempt.
C15_CriticalBackoffSchedule ==
    /\ []( Wrapper(fg.mod, fg.op) = "withRetry" =>
             /\ CriticalBackoff(fg.sleeps)
             /\ fg.pc = "inflight" => fg.attempts = Len(fg.sleeps) + 1
             /\ ( /\ fg.pc = "done"
                  /\ fg.thrown
                  /\ isTransient(fg.err)
                  /\ ~isQuotaExceeded(fg.err) ) =>
                    ( /\ fg.attempts = 4
                      /\ fg.sleeps = <<2000, 4000, 8000>>
                      /\ ~fg.tripped ) )
    /\ [][ /\ \A m \in Messages :
                ( /\ Wrapper(fg.mod, fg.op) = "withRetry"
                  /\ isTransient(m) /\ ~isQuotaExceeded(m)
                  /\ AttemptRejected(Foreground, m) ) =>
                    ( /\ sessionForceOffline' = sessionForceOffline
                      /\ fg'.pc = (IF fg.attempts < 4 THEN "sleeping" ELSE "done")
                      /\ fg'.pc = "done" => fg'.err = m )
           /\ \A p \in Payloads :
                ( /\ Wrapper(fg.mod, fg.op) = "withRetry"
                  /\ AttemptFulfilled(Foreground, p) ) =>
                    ( /\ fg'.pc = "done"
                      /\ ~fg'.thrown
                      /\ fg'.attempts = fg.attempts
                      /\ fg'.sleeps = fg.sleeps )
         ]_vars

\* A critical call used up its budget on transient errors.
C15_Witness ==
    /\ fg.pc = "done"
    /\ fg.op \in CriticalOps
    /\ fg.thrown
    /\ fg.err = <<"fetch", "failed">>
    /\ fg.attempts = 4
    /\ fg.sleeps = <<2000, 4000, 8000>>
    /\ ~sessionForceOffline

IndicatesTransient(msg) ==
    \/ Includes(msg, "500")
    \/ Includes(msg, "503")
    \/ Includes(msg, "fetch")
    \/ Includes(msg, "timeout")

\* C17: withRetry retries, while attempts remain, every non-quota failure whose
\* message indicates a 5xx server error, a connection failure or a timeout,
\* and throws every other non-quota failure after that single attempt with
\* the latch unchanged.
C17_CriticalTransientClassification ==
    [][ \A m \in Messages :
          ( /\ Wrapper(fg.mod, fg.op) = "withRetry"
            /\ ~isQuotaExceeded(m)
            /\ AttemptRejected(Foreground, m) ) =>
          ( /\ sessionForceOffline' = sessionForceOffline
            /\ IF IndicatesTransient(m) /\ fg.retries > 0
               THEN fg'.pc = "sleeping"
               ELSE fg'.pc = "done" /\ fg'.thrown /\ fg'.err = m
                    /\ fg'.attempts = fg.attempts )
      ]_vars

\* C18: withImageRetry never retries an attempt rejected with a message that
\* indicates a quota condition (quota, 429, RESOURCE_EXHAUSTED): the call
\* throws it after that attempt, and the latch is unchanged.
C18_ImageQuotaIsTerminal ==
    [][ \A m \in Messages :
          ( /\ Wrapper(fg.mod, fg.op) = "withImageRetry"
            /\ isQuotaExceeded(m)
            /\ AttemptRejected(Foreground, m) ) =>
          ( /\ fg'.pc = "done"
            /\ fg'.thrown
            /\ fg'.err = m
            /\ fg'.attempts = fg.attempts
            /\ fg'.sleeps = fg.sleeps
            /\ sessionForceOffline' = sessionForceOffline )
      ]_vars

\* C19: an exported remote operation called while checkOnlineStatus() is false
\* makes no remote attempt and returns its local fallback; called while it is
\* true, it makes its first attempt.
C19_EveryOperationIsGated ==
    [][ \A op \in GatedOps :
          StartOp(Foreground, "current", op) =>
            IF checkOnlineStatus
            THEN fg'.pc = "inflight" /\ fg'.attempts = 1
            ELSE /\ fg'.pc = "done"
                 /\ fg'.attempts = 0
                 /\ ~fg'.thrown
                 /\ fg'.result = OfflineResult(op)
      ]_vars

\* generateVisualBlueprint was called while a key is present and the latch is
\* clear but the network is down: no attempt, the offline default blueprint.
C19_Witness ==
    /\ fg.pc = "done"
    /\ fg.op = "generateVisualBlueprint"
    /\ fg.attempts = 0
    /\ fg.result.tag = "blueprint.offlineDefault"
    /\ ~onLine
    /\ CredentialPresent
    /\ ~sessionForceOffline

C21_OnlineFlagNeverForged ==
    /\ []( (fg.pc = "done" /\ fg.op = "synthesizeProtocol") =>
              /\ (fg.attempts = 0 \/ fg.thrown) => fg.result.isOffline
              /\ ~fg.result.isOffline => (fg.attempts >= 1 /\ ~fg.thrown) )
    /\ [][ ( /\ fg' # fg
             /\ fg'.pc = "done"
             /\ fg'.op = "synthesizeProtocol"
             /\ ~fg'.result.isOffline ) =>
           ( /\ fg.pc = "inflight"
             /\ fg.op = "synthesizeProtocol"
             /\ \E p \in {"valid", "empty"} : AttemptFulfilled(Foreground, p) )
         ]_vars

\* A remote synthesis succeeded on its second attempt and the protocol is
\* flagged as remote.
C21_Witness ==
    /\ fg.pc = "done"
    /\ fg.op = "synthesizeProtocol"
    /\ fg.attempts = 2
    /\ ~fg.thrown
    /\ ~fg.result.isOffline

\* C22: calculateCompositeConfidence returns an integer in [0,100], never
\* NaN, for every inventory, protocol and memory.
C22_ScoreIsIntegerInRange ==
    ccs.phase = "returned" =>
        /\ ~isNaN(ccs.out.result)
        /\ ccs.out.result.d = 1
        /\ ccs.out.result.n \in 0..100

\* C23: for an empty ingredient list the perception term is exactly 1.0.
C23_EmptyInventoryPerceptionIsOne ==
    (ccs.phase = "returned" /\ ccs.mlInventory = <<>>) =>
        ccs.out.mlConfidence = Num(1, 1)

\* The function returned for an empty inventory and a protocol that
\* references an ingredient.
C23_Witness ==
    /\ ccs.phase = "returned"
    /\ ccs.mlInventory = <<>>
    /\ ccs.protocol.ingredients_used = <<"tomato">>
    /\ ccs.out.mlConfidence = Num(1, 1)
    /\ ~isNaN(ccs.out.result)

\* C24: for a protocol whose ingredients_used is empty the constraint term is
\* exactly 1.0 and the composite is round(100 * (0.5 P + 0.3 C + 0.2)).
C24_NoReferencesConstraintIsOne ==
    (ccs.phase = "returned" /\ ccs.protocol.ingredients_used = <<>>) =>
        /\ ccs.out.constraintSatisfaction = Num(1, 1)
        /\ ccs.out.result =
              MathRound(Mul(Num(100, 1),
                  Add(Add(Mul(Num(1, 2), ccs.out.mlConfidence),
                          Mul(Num(3, 10), ccs.out.geminiCoherence)),
                      Num(2, 10))))

\* The perception term as the text defines it, for a non-empty list.
StatedItem(memory, x) ==
    LET s == IF x.verificationStatus = "confirmed" /\ Less(x.confidence, Num(85, 100))
             THEN Num(85, 100) ELSE x.confidence
        k == IF Lower(x.name) \in DOMAIN memory THEN memory[Lower(x.name)] ELSE 0
        b == IF 2 * k > 10 THEN Num(10, 100) ELSE Num(2 * k, 100)
        t == Add(s, b)
    IN  IF Less(Num(1, 1), t) THEN Num(1, 1) ELSE t

RECURSIVE StatedTotal(_, _, _)
StatedTotal(memory, list, i) ==
    IF i > Len(list) THEN Num(0, 1)
    ELSE Add(StatedItem(memory, list[i]), StatedTotal(memory, list, i + 1))

StatedMean(memory, list) ==
    LET total == StatedTotal(memory, list, 1) IN Num(total.n, total.d * Len(list))

\* C25: for every non-empty ingredient list the perception term is the mean
\* of min(1, s + b) over the ingredients, also when that mean is 0.
C25_PerceptionIsTheMean ==
    (ccs.phase = "returned" /\ ccs.mlInventory # <<>>) =>
        ccs.out.mlConfidence = StatedMean(ccs.memory, ccs.mlInventory)

\* The coherence term as the text defines it.
StatedCoherence(protocol) == IF protocol.instructions >= 4 THEN Num(1, 1) ELSE Num(7, 10)

\* round(100 * (0.5 P + 0.3 C + 0.2 K)), halves upwards.
StatedComposite(P, C, K) ==
    LET x == Add(Add(Mul(Num(50, 1), P), Mul(Num(30, 1), C)), Mul(Num(20, 1), K))
    IN  IF isNaN(x) THEN NaN ELSE Num((2 * x.n + x.d) \div (2 * x.d), 1)

ScenarioA ==
    /\ ccs.mlInventory =
          << [name |-> "tomato", confidence |-> Num(6, 10), verificationStatus |-> "unverified"] >>
    /\ ccs.protocol = [instructions |-> 5, ingredients_used |-> <<"tomato">>]
    /\ \A k \in DOMAIN ccs.memory : ccs.memory[k] = 0

\* C26: the composite is round(100 * (0.5 P + 0.3 C + 0.2 K)) with C = 1.0
\* for more than 3 instructions and 0.7 otherwise; scenario A scores 80.
C26_CompositeFormula ==
    ccs.phase = "returned" =>
        /\ ccs.out.geminiCoherence = StatedCoherence(ccs.protocol)
        /\ ccs.out.result = StatedComposite(ccs.out.mlConfidence, ccs.out.geminiCoherence,
                                            ccs.out.constraintSatisfaction)
        /\ ScenarioA => ccs.out.result = Num(80, 1)

\* Scenario A was evaluated.
C26_Witness ==
    /\ ccs.phase = "returned"
    /\ ScenarioA
    /\ ccs.out.mlConfidence = Num(6, 10)
    /\ ccs.out.geminiCoherence = Num(1, 1)
    /\ ccs.out.constraintSatisfaction = Num(1, 1)
    /\ ccs.out.result = Num(80, 1)

\* The name is one of the perceived ones, compared case-insensitively.
Perceived(inv, name) == \E j \in 1..Len(inv) : Lower(inv[j].name) = Lower(name)

Absent(inv, used) == Cardinality({i \in 1..Len(used) : ~Perceived(inv, used[i])})

\* C27: with at least one referenced name the constraint term is
\* 1 - absent / referenced, not below 0; a protocol that references one
\* perceived and one unperceived ingredient has constraint 0.5 and scores
\* strictly less than the same inputs without the unperceived reference.
C27_ConstraintTerm ==
    (ccs.phase = "returned" /\ ccs.protocol.ingredients_used # <<>>) =>
        LET used == ccs.protocol.ingredients_used
            k == Num(Len(used) - Absent(ccs.mlInventory, used), Len(used))
        IN  /\ ccs.out.constraintSatisfaction = (IF k.n < 0 THEN Num(0, 1) ELSE k)
            /\ ( /\ Len(used) = 2
                 /\ Perceived(ccs.mlInventory, used[1])
                 /\ ~Perceived(ccs.mlInventory, used[2]) ) =>
                  /\ ccs.out.constraintSatisfaction = Num(1, 2)
                  /\ Less(ccs.out.result,
                          calculateCompositeConfidence(ccs.mlInventory,
                              [ccs.protocol EXCEPT !.ingredients_used = <<used[1]>>],
                              ccs.memory).result)

\* Scenario B with the perceived name written in another case: "tomato" is
\* perceived, the protocol references "Tomato" and "unicorn-meat".
C27_Witness ==
    /\ ccs.phase = "returned"
    /\ Len(ccs.mlInventory) = 1
    /\ ccs.mlInventory[1].name = "tomato"
    /\ ccs.mlInventory[1].confidence = Num(6, 10)
    /\ ccs.mlInventory[1].verificationStatus = "unverified"
    /\ ccs.protocol = [instructions |-> 5, ingredients_used |-> <<"Tomato", "unicorn-meat">>]
    /\ \A k \in DOMAIN ccs.memory : ccs.memory[k] = 0
    /\ ccs.out.constraintSatisfaction = Num(1, 2)
    /\ ccs.out.result = Num(70, 1)

\* The stages marked active in a record of steps.
ActiveStages(steps) == {id \in DOMAIN steps : steps[id] = "active"}

\* The step in which the audit call of the running analysis settles.
AuditCallSettles ==
    /\ analyzer.pc \in {"pause", "awaitAudit"}
    /\ \/ AuditTimer
       \/ \E p \in Payloads : AnalyzerFulfilled(p)
       \/ \E m \in Messages : AnalyzerRejected(m)
       \/ AnalyzerWakeUp
    /\ fg'.pc = "done"

\* C28: auditRecall never throws and returns an empty list when it makes no
\* attempt or its remote call fails; whenever the audit call of the Analyzer
\* settles, the audit stage is complete and the rescan stage is active.
C28_AuditNeverFailsThePipeline ==
    /\ []( (fg.pc = "done" /\ fg.op = "auditRecall") =>
              /\ fg.result.tag # Throws
              /\ (fg.attempts = 0 \/ fg.thrown) => fg.result = Val("[]") )
    /\ [][ AuditCallSettles =>
             /\ fg'.op = "auditRecall"
             /\ analyzer'.pc = "awaitRescan"
             /\ analyzer'.steps["audit"] = "complete"
             /\ analyzer'.steps["rescan"] = "active"
             /\ analyzer'.hypotheses = fg'.result.tag
             /\ analyzer'.isAnalyzing
             /\ analyzer'.error = "null"
         ]_vars

\* The audit call failed on every attempt of its budget and the pipeline is
\* in the rescan stage with no hypotheses.
C28_Witness ==
    /\ analyzer.pc = "awaitRescan"
    /\ fg.op = "auditRecall"
    /\ fg.thrown
    /\ fg.attempts = CriticalRetries + 1
    /\ analyzer.hypotheses = "[]"
    /\ analyzer.steps["rescan"] = "active"

\* C29: refineManifestWithEnsemble never throws and returns the list it was
\* given when it makes no attempt, when its remote call fails and when the
\* reply cannot be parsed.
C29_RefineFallsBackToItsInput ==
    /\ []( (fg.pc = "done" /\ fg.op = "refineManifestWithEnsemble") =>
              /\ fg.result.tag # Throws
              /\ (fg.attempts = 0 \/ fg.thrown) => fg.result = Val("ingredients") )
    /\ [][ ( /\ fg.op = "refineManifestWithEnsemble"
             /\ \/ AttemptFulfilled(Foreground, "garbage")
                \/ \E m \in Messages : AttemptRejected(Foreground, m) /\ fg'.pc = "done" ) =>
           fg'.result = Val("ingredients")
         ]_vars

\* The refinement failed on every attempt of its budget and returned its
\* input.
C29_Witness ==
    /\ fg.pc = "done"
    /\ fg.op = "refineManifestWithEnsemble"
    /\ fg.thrown
    /\ fg.attempts = CriticalRetries + 1
    /\ fg.result = Val("ingredients")

\* The stage during which an operation is called.
StageOf(op) ==
    CASE op = "auditRecall" -> "audit"
      [] op = "refineManifestWithEnsemble" -> "fuse"
      [] op = "synthesizeProtocol" -> "manifest"
      [] op \in {"generatePlatingVisual", "generateVisualBlueprint"} -> "plating"
      [] op = "generateDrinkVisual" -> "sommelier"
      [] op = "generateSchematic" -> "blueprint"
      [] OTHER -> "none"

SynthesisStageOrder == <<"manifest", "plating", "sommelier", "blueprint">>

\* In steps, every stage that is not pending has only complete predecessors
\* in order.
InOrder(steps, order) ==
    \A i \in 1..Len(order) :
        steps[order[i]] # "pending" => \A j \in 1..(i - 1) : steps[order[j]] = "complete"

\* From steps to steps2, a stage turns active only if its predecessor in
\* order is complete afterwards and no call of the pipeline was pending.
ActivatedAfterPredecessor(steps, steps2, order) ==
    \A i \in 2..Len(order) :
        (steps[order[i]] # "active" /\ steps2[order[i]] = "active") =>
            steps2[order[i - 1]] = "complete"

\* C30: in both pipelines at most one stage is active, stages are taken in
\* their fixed order, a stage turns active only with its predecessor
\* complete, and a remote call is pending only for the active stage.
C30_StagesRunInOrderOneAtATime ==
    /\ []( /\ Cardinality(ActiveStages(analyzer.steps)) <= 1
           /\ Cardinality(ActiveStages(synth.steps)) <= 1
           /\ InOrder(analyzer.steps, AnalyzerStageOrder)
           /\ InOrder(synth.steps, SynthesisStageOrder)
           /\ fg.pc \in {"inflight", "sleeping"} =>
                IF SynthesisShown
                THEN ActiveStages(synth.steps) = {StageOf(fg.op)}
                ELSE ActiveStages(analyzer.steps) = {StageOf(fg.op)} )
    /\ [][ /\ ActivatedAfterPredecessor(analyzer.steps, analyzer'.steps, AnalyzerStageOrder)
           /\ ActivatedAfterPredecessor(synth.steps, synth'.steps, SynthesisStageOrder)
           /\ (fg'.pc = "inflight" /\ fg.pc \in {"idle", "done"}) =>
                IF SynthesisShown
                THEN ActiveStages(synth'.steps) = {StageOf(fg'.op)}
                ELSE ActiveStages(analyzer'.steps) = {StageOf(fg'.op)}
         ]_vars

\* The perception pipeline has completed and the synthesis pipeline is in
\* its third stage with the drink image requested.
C30_Witness ==
    /\ SynthesisShown
    /\ \A id \in AnalyzerStepIds : analyzer.steps[id] = "complete"
    /\ synth.steps["manifest"] = "complete"
    /\ synth.steps["plating"] = "complete"
    /\ synth.steps["sommelier"] = "active"
    /\ fg.pc = "inflight"
    /\ fg.op = "generateDrinkVisual"

\* C31: in both pipelines a stage is recorded complete only after it was
\* marked active in the same run.
C31_CompleteOnlyAfterActive ==
    /\ \A id \in StepIds : synth.steps[id] = "complete" => id \in synth.activated
    /\ \A id \in AnalyzerStepIds :
          analyzer.steps[id] = "complete" => id \in analyzer.activated

\* The largest number of attempts the wrapper of a call can make.
AttemptBudget(rec) ==
    IF Wrapper(rec.mod, rec.op) = "withRetry" THEN CriticalRetries + 1
    ELSE ImageRetries + 1

\* C32: a call through withRetry or withImageRetry makes a bounded number of
\* attempts, its remaining budget never goes below zero, and when attempts
\* settle and sleeps end it returns or throws.
C32_WrappersTerminate ==
    /\ []( fg.op \in GatedOps =>
             /\ fg.attempts <= AttemptBudget(fg)
             /\ fg.retries >= 0
             /\ Len(fg.sleeps) <= AttemptBudget(fg) - 1 )
    /\ (fg.pc \in {"inflight", "sleeping"}) ~> (fg.pc = "done")

\* An image call failed with a transient error on all attempts of its budget
\* and threw.
C32_Witness ==
    /\ fg.pc = "done"
    /\ fg.op \in ImageOps
    /\ fg.thrown
    /\ fg.attempts = ImageRetries + 1
    /\ fg.retries = 0

C34_TripInManifestAlignment ==
    [][ \A m \in CoreMessages :
          ( /\ synth.pc = "awaitProtocol"
            /\ ~sessionForceOffline
            /\ SynthesisRejected(m)
            /\ sessionForceOffline' ) =>
          ( /\ synth'.pc = "timer"
            /\ synth'.protocol = synthesizeOfflineProtocol
            /\ synth'.visualUrl = synth.visualUrl
            /\ synth'.visualBlueprint = "blueprint.offlineDefault"
            /\ synth'.drinkUrl = ""
            /\ synth'.schematicUrl = ""
            /\ \A id \in StepIds : synth'.steps[id] = "complete"
            /\ fg'.op = "generateSchematic"
            /\ fg'.pc = "done"
            /\ fg'.attempts = 0 )
      ]_vars

\* A run whose synthesis call tripped the latch, with network and credential
\* available, has completed offline.
C34_Witness ==
    /\ synth.pc = "timer"
    /\ sessionForceOffline
    /\ onLine
    /\ CredentialPresent
    /\ synth.protocol = synthesizeOfflineProtocol
    /\ synth.visualBlueprint = "blueprint.offlineDefault"
    /\ synth.drinkUrl = ""
    /\ synth.schematicUrl = ""
    /\ fg.op = "generateSchematic"
    /\ fg.attempts = 0

\* The message carries one of the transient markers of withRetry.
HasTransientMarker(msg) == Includes(msg, "500") \/ Includes(msg, "fetch")

\* C35: an attempt of withRetry rejected with a message that carries both a
\* quota marker and a transient marker sets the latch and is not retried,
\* whatever budget remains.
C35_QuotaTakesPrecedence ==
    [][ \A m \in Messages :
          ( /\ isQuotaExceeded(m)
            /\ HasTransientMarker(m)
            /\ Wrapper(fg.mod, fg.op) = "withRetry"
            /\ AttemptRejected(Foreground, m) ) =>
          ( /\ sessionForceOffline'
            /\ fg'.pc = "done"
            /\ fg'.thrown
            /\ fg'.err = m
            /\ fg'.tripped
            /\ fg'.attempts = fg.attempts
            /\ fg'.sleeps = fg.sleeps )
      ]_vars

\* The first attempt of a critical call was rejected with a message holding
\* "429" and "fetch": the latch is set and the full budget is left.
C35_Witness ==
    /\ fg.pc = "done"
    /\ fg.op \in CriticalOps
    /\ fg.err = <<"429", "fetch">>
    /\ fg.attempts = 1
    /\ fg.retries = CriticalRetries
    /\ fg.sleeps = <<>>
    /\ fg.tripped
    /\ sessionForceOffline

\* A step of validateApiKey by client c: its call, or its continuation with a
\* reply (ok) or a rejection.
ValidateStep(c) ==
    \/ \E k \in {"", "K"} : StartValidate(c, "current", k)
    \/ SaveApiKey(c)
    \/ \E ok \in BOOLEAN, p \in Payloads : ValidateSettles(c, ok, p)

\* C36: no step of validateApiKey sets the latch; the step that receives a
\* valid reply clears it and every other step of validateApiKey leaves it
\* unchanged; called under a set latch with the network up and a key to
\* test, validateApiKey sends its request, and a pending request can be
\* answered with a valid reply, which clears the latch.
C36_ValidationAndTheLatch ==
    /\ [][ \A c \in Clients :
             /\ ValidateStep(c) => ~(~sessionForceOffline /\ sessionForceOffline')
             /\ ValidateSettles(c, TRUE, "valid") => ~sessionForceOffline'
             /\ (ValidateStep(c) /\ ~ValidateSettles(c, TRUE, "valid")) =>
                   UNCHANGED sessionForceOffline
             /\ ( /\ sessionForceOffline
                  /\ onLine
                  /\ CredentialPresent
                  /\ c = Foreground
                  /\ \E k \in {"", "K"} : StartValidate(c, "current", k) ) =>
                   (fg'.pc = "inflight" /\ fg'.op = "validateApiKey")
         ]_vars
    /\ []( (fg.pc = "inflight" /\ fg.op = "validateApiKey") =>
              ENABLED ValidateSettles(Foreground, TRUE, "valid") )
    /\ []( (sessionForceOffline /\ onLine /\ CredentialPresent /\ fg.pc \in {"idle", "done"}) =>
              ENABLED (StartValidate(Foreground, "current", "") /\ fg'.pc = "inflight") )

\* validateApiKey was called under a set latch, its request was answered
\* with a valid reply and the latch is clear.
C36_Witness ==
    /\ fg.pc = "done"
    /\ fg.op = "validateApiKey"
    /\ fg.attempts = 1
    /\ fg.cleared
    /\ fg.result = Val("true")
    /\ ~sessionForceOffline

\* The list with the raw confidence of its i-th ingredient replaced.
WithConfidence(inv, i, c) == [inv EXCEPT ![i].confidence = c]

\* C37: with protocol, memory and the other ingredients fixed, raising the
\* raw confidence of one ingredient never lowers the composite score.
C37_MonotoneInConfidence ==
    ccs.phase = "returned" =>
        \A i \in 1..Len(ccs.mlInventory), c \in Confidences :
            LET raised == calculateCompositeConfidence(
                              WithConfidence(ccs.mlInventory, i, c), ccs.protocol,
                              ccs.memory).result
            IN  ( /\ Less(ccs.mlInventory[i].confidence, c)
                  /\ ~isNaN(ccs.out.result)
                  /\ ~isNaN(raised) ) =>
                    ~Less(raised, ccs.out.result)

\* C38: handleStartSynthesis with an empty inventory makes no service call
\* and changes nothing of the component but the error message.
C38_EmptyInventoryOnlySetsTheError ==
    [][ (synth.localInventory = "empty" /\ handleStartSynthesis) =>
          /\ calls' = calls
          /\ UNCHANGED <<sessionForceOffline, onLine, envKey, storedKey>>
          /\ synth'.errorMessage = "ANALYZE_IMAGE_FIRST"
          /\ synth' = [synth EXCEPT !.errorMessage = synth'.errorMessage,
                                    !.isOnline = synth'.isOnline]
          /\ synth'.phase = "CALIBRATION"
          /\ synth'.steps = SYNTHESIS_STEPS
          /\ synth'.progress = 0
          /\ synth'.protocol = Val("null")
      ]_vars

\* The button was clicked with an empty inventory.
C38_Witness ==
    /\ synth.localInventory = "empty"
    /\ synth.errorMessage = "ANALYZE_IMAGE_FIRST"
    /\ synth.phase = "CALIBRATION"
    /\ synth.selectedCuisine
    /\ synth.progress = 0
    /\ synth.steps = SYNTHESIS_STEPS
    /\ fg.pc = "idle"

AllComplete(steps) == \A id \in DOMAIN steps : steps[id] = "complete"

NonDecreasing(log) == \A i, j \in DOMAIN log : i <= j => log[i] <= log[j]

\* C39: within one run of the synthesis or of the perception pipeline the
\* progress percentage never decreases, and it is 100 only when every stage
\* of that run is marked complete.
C39_ProgressIsMonotone ==
    /\ [](NonDecreasing(synth.progressLog))
    /\ [](synth.progress = 100 => AllComplete(synth.steps))
    /\ [](analyzer.progress = 100 => AllComplete(analyzer.steps))
    /\ [][analyzer.isAnalyzing => analyzer'.progress >= analyzer.progress]_vars
    /\ [][synth.phase = "PROCESSING" => synth'.progress >= synth.progress]_vars

\* Both runs have finished at 100 with every stage complete.
C39_Witness ==
    /\ analyzer.progress = 100
    /\ AllComplete(analyzer.steps)
    /\ synth.pc = "timer"
    /\ synth.progressLog = <<5, 20, 40, 60, 80, 100>>
    /\ synth.progress = 100
    /\ AllComplete(synth.steps)

====
